---- MODULE Spec2Model ----
(***************************************************************************)
(* The model registry of nyx's modelling objects: the queue of deferred    *)
(* training closures (_queued_models), the registry of ran models          *)
(* (_models), the add_to_queue decorator of the model methods, run_models  *)
(* in series and through the process pool, and delete_model.               *)
(***************************************************************************)
EXTENDS Integers, Sequences, FiniteSets, TLC

\* ---------------------------------------------------------------- bounds
\* How many of the model names of NameTable the calls draw from.
NumNames == 2
\* mp.cpu_count(): how many pool workers run a task at the same time.
NumCPU == 2

\* ------------------------------------------------------------- constants
\* The model methods the calls draw from: two of the unsupervised ones and
\* a model method of the supervised classes with XGBoost in its name.
UnsupervisedMethods == {"KMeans", "DBScan"}

Methods == UnsupervisedMethods \cup {"XGBoostClassification"}

NameTable == <<"km", "dbs", "iso_forest", "ocsvm">>

ModelNames == {NameTable[i] : i \in 1..NumNames}

\* A name that is an attribute of the object already.
InvalidNames == {"run_models"}

\* The columns of x_train: one has the name of a model, one does not.
Columns == {"km", "age"}

\* The keyword was not passed.
Absent == "<absent>"

RunMethods == {"parallel", "series", "threads"}

VARIABLES
    _models,         \* self._models: name -> ran model
    _queued_models,  \* self._queued_models: ordered dict, name -> closure
    pc,              \* where the caller is: "idle", "pool" or "series"
    last,            \* the call in progress or the last call made
    ret,             \* how the last call ended: kind, exception, value
    queue_at_call,   \* the queue when the last run_models began
    invoked,         \* per queue position: closure invocations in this call
    tasks,           \* pool.map's iterable: list(_queued_models.values())
    wstate,          \* per task: "pending", "running", "done", "failed"
    wmodels,         \* per task: the _models of the worker's pickled copy
    results,         \* per task: the result sent back by the worker
    finished,        \* task indexes in the order the workers finished
    idx,             \* series: position of the for loop in the queue
    series_models    \* series: the local list `models` of run_models

\* The data containers and what they refer to, for copy() and the data
\* methods: objects, dataframes and dicts live on a heap and are referred
\* to by their position in it.
VARIABLES
    objs,            \* the objects: class, fields, references
    frames,          \* the dataframes: columns and in-place edits
    dicts,           \* the _models and _queued_models dicts: their keys
    dlast,           \* the last call on a data container
    dret             \* how it ended

regvars == <<_models, _queued_models, pc, last, ret, queue_at_call, invoked,
             tasks, wstate, wmodels, results, finished, idx, series_models>>

datavars == <<objs, frames, dicts, dlast, dret>>

vars == <<regvars, datavars>>

poolvars == <<tasks, wstate, wmodels, results, finished>>

seriesvars == <<idx, series_models>>

\* -------------------------------------------------------------- helpers
\* get_default_args(model_function): every signature has run=True and its
\* own default model_name.
DefaultModelName(fn) ==
    CASE fn = "KMeans" -> "km"
      [] fn = "DBScan" -> "dbs"
      [] fn = "IsolationForest" -> "iso_forest"
      [] fn = "OneClassSVM" -> "ocsvm"
      [] OTHER -> "xgb_cls"

\* Mutant: the signatures default to run=False.
get_default_args_RunFalse(fn) ==
    [run |-> "False", model_name |-> DefaultModelName(fn)]

get_default_args(fn) == [run |-> "True", model_name |-> DefaultModelName(fn)]

\* Mutant: the test looks for "xgboost" and never matches a method name.
IsXGBoost_NoMatch(fn) == FALSE

\* "XGBoost" in model_function.__name__
IsXGBoost(fn) == fn = "XGBoostClassification"

\* kwargs.get(key, default)
KwargsGet(arg, default) == IF arg = Absent THEN default ELSE arg

\* A model name is valid unless the object has an attribute of that name.
_validate_model_name(name) == name \notin InvalidNames

\* The analysis object a training run returns; it carries model_name.
TrainedModel(fn, name) == [model_name |-> name, fn |-> fn]

NoModels == [n \in {} |-> TrainedModel("", "")]

\* d[name] = value and del d[name] on the _models dict.
DictSet(d, name, value) ==
    [n \in (DOMAIN d) \cup {name} |-> IF n = name THEN value ELSE d[n]]

DictDel(d, name) == [n \in (DOMAIN d) \ {name} |-> d[n]]

\* The queue is an insertion-ordered dict: a sequence of entries with
\* distinct names; each entry is partial(self.<fn>, model_name=name, run=True).
Keys(q) == {q[i].name : i \in 1..Len(q)}

PosOf(q, name) == CHOOSE i \in 1..Len(q) : q[i].name = name

\* Mutant: the queue kept as a list, a queued name is queued again.
QueueSet_Append(q, name, fn) == Append(q, [name |-> name, fn |-> fn])

QueueSet(q, name, fn) ==
    IF name \in Keys(q)
    THEN [q EXCEPT ![PosOf(q, name)] = [name |-> name, fn |-> fn]]
    ELSE Append(q, [name |-> name, fn |-> fn])

QueueDel(q, name) == SelectSeq(q, LAMBDA e : e.name # name)

\* How a call ended: it returned None ("None"), None after printing the
\* XGBoost notice ("notice"), a trained model ("model") or a list of them
\* ("list"), an attribute of the object ("attribute") or a data column
\* ("column"), or it raised ("raise").
Returned(kind, val) == [kind |-> kind, exc |-> "", val |-> val]

Raised(exc) == [kind |-> "raise", exc |-> exc, val |-> <<>>]

\* The call has not ended yet.
InProgress == [kind |-> "running", exc |-> "", val |-> <<>>]

\* A call: the operation, the model name it is about (for a model method
\* the effective model_name), the run keyword as passed, the run method.
Call(op, name, run, method) ==
    [op |-> op, name |-> name, run |-> run, method |-> method]

\* ModelBase._run_unsupervised_model: train, register under model_name.
_run_unsupervised_model(m, fn, name) == DictSet(m, name, TrainedModel(fn, name))

\* A call on a data container and how it ended: the object returned or
\* the dataframe described, 0 for neither.
DCall(op, obj, arg) == [op |-> op, obj |-> obj, arg |-> arg]

DRet(kind, obj, frame) ==
    [kind |-> kind, obj |-> obj, frame |-> frame, cols |-> <<>>]

\* The end of a call that gives a list of columns or a dataframe made for
\* the caller, known by its columns.
DRetCols(kind, cols) == [kind |-> kind, obj |-> 0, frame |-> 0, cols |-> cols]

\* No data container is looked at.
NoData ==
    /\ objs = <<>>
    /\ frames = <<>>
    /\ dicts = <<>>
    /\ dlast = DCall("init", 0, "")
    /\ dret = DRet("None", 0, 0)

\* The registry after construction: nothing queued, nothing ran.
RegistryInit ==
    /\ _models = NoModels
    /\ _queued_models = <<>>
    /\ pc = "idle"
    /\ last = Call("init", "", "", "")
    /\ ret = Returned("None", <<>>)
    /\ queue_at_call = <<>>
    /\ invoked = <<>>
    /\ tasks = <<>>
    /\ wstate = <<>>
    /\ wmodels = <<>>
    /\ results = <<>>
    /\ finished = <<>>
    /\ idx = 0
    /\ series_models = <<>>

Init == RegistryInit /\ NoData

\* Mutant: the model name is validated after the method was run or queued.
Wrapper_ValidatesLate(fn, name_arg, run_arg, fits) ==
    LET default_kwargs == get_default_args(fn)
        run == KwargsGet(run_arg, default_kwargs.run)
        model_name == KwargsGet(name_arg, default_kwargs.model_name)
    IN  /\ pc = "idle"
        /\ model_name \in ModelNames \cup InvalidNames
        /\ (run # "True") => fits
        /\ IsXGBoost(fn) => run # "True"
        /\ last' = Call("model", model_name, run_arg, "")
        /\ IF run = "True"
           THEN IF fits
                THEN /\ _models' = _run_unsupervised_model(_models, fn, model_name)
                     /\ ret' = IF _validate_model_name(model_name)
                               THEN Returned("model", <<TrainedModel(fn, model_name)>>)
                               ELSE Raised("AttributeError")
                     /\ UNCHANGED _queued_models
                ELSE /\ ret' = Raised("TrainError")
                     /\ UNCHANGED <<_models, _queued_models>>
           ELSE IF IsXGBoost(fn)
           THEN /\ ret' = IF _validate_model_name(model_name)
                          THEN Returned("notice", <<>>)
                          ELSE Raised("AttributeError")
                /\ UNCHANGED <<_models, _queued_models>>
           ELSE /\ _queued_models' = QueueSet(_queued_models, model_name, fn)
                /\ ret' = IF _validate_model_name(model_name)
                          THEN Returned("None", <<>>)
                          ELSE Raised("AttributeError")
                /\ UNCHANGED _models
        /\ queue_at_call' = <<>>
        /\ invoked' = <<>>
        /\ finished' = <<>>
        /\ UNCHANGED <<pc, tasks, wstate, wmodels, results>>
        /\ UNCHANGED seriesvars

\* ------------------------------------------------------ model methods
\* add_to_queue's wrapper around a model method.  fits says whether the
\* training succeeds when the model is run.  The XGBoost methods belong to
\* the supervised classes, whose training is outside this model: they are
\* called with run=False only.
Wrapper(fn, name_arg, run_arg, fits) ==
    LET default_kwargs == get_default_args(fn)
        run == KwargsGet(run_arg, default_kwargs.run)
        model_name == KwargsGet(name_arg, default_kwargs.model_name)
    IN  /\ pc = "idle"
        /\ model_name \in ModelNames \cup InvalidNames
        /\ (run # "True") => fits
        /\ IsXGBoost(fn) => run # "True"
        /\ last' = Call("model", model_name, run_arg, "")
        /\ IF ~_validate_model_name(model_name)
           THEN /\ ret' = Raised("AttributeError")
                /\ UNCHANGED <<_models, _queued_models>>
           ELSE IF run = "True"
           THEN IF fits
                THEN /\ _models' = _run_unsupervised_model(_models, fn, model_name)
                     /\ ret' = Returned("model", <<TrainedModel(fn, model_name)>>)
                     /\ UNCHANGED _queued_models
                ELSE /\ ret' = Raised("TrainError")
                     /\ UNCHANGED <<_models, _queued_models>>
           ELSE IF IsXGBoost(fn)
           THEN /\ ret' = Returned("notice", <<>>)
                /\ UNCHANGED <<_models, _queued_models>>
           ELSE /\ _queued_models' = QueueSet(_queued_models, model_name, fn)
                /\ ret' = Returned("None", <<>>)
                /\ UNCHANGED _models
        /\ queue_at_call' = <<>>
        /\ invoked' = <<>>
        /\ finished' = <<>>
        /\ UNCHANGED <<pc, tasks, wstate, wmodels, results>>
        /\ UNCHANGED seriesvars

ModelMethod ==
    \E fn \in Methods, name_arg \in ModelNames \cup InvalidNames \cup {Absent},
       run_arg \in {"True", "False", Absent}, fits \in BOOLEAN :
        Wrapper(fn, name_arg, run_arg, fits) /\ UNCHANGED datavars

\* Mutant: an unknown name is ignored instead of raising.
delete_model_Silent(name) ==
    /\ pc = "idle"
    /\ last' = Call("delete_model", name, "", "")
    /\ ret' = Returned("None", <<>>)
    /\ _queued_models' = QueueDel(_queued_models, name)
    /\ _models' = IF name \in Keys(_queued_models)
                  THEN _models
                  ELSE DictDel(_models, name)
    /\ queue_at_call' = <<>>
    /\ invoked' = <<>>
    /\ finished' = <<>>
    /\ UNCHANGED <<pc, tasks, wstate, wmodels, results>>
    /\ UNCHANGED seriesvars

\* ------------------------------------------------------- delete_model
delete_model(name) ==
    /\ pc = "idle"
    /\ last' = Call("delete_model", name, "", "")
    /\ IF name \in Keys(_queued_models)
       THEN /\ _queued_models' = QueueDel(_queued_models, name)
            /\ ret' = Returned("None", <<>>)
            /\ UNCHANGED _models
       ELSE IF name \in DOMAIN _models
       THEN /\ _models' = DictDel(_models, name)
            /\ ret' = Returned("None", <<>>)
            /\ UNCHANGED _queued_models
       ELSE /\ ret' = Raised("ValueError")
            /\ UNCHANGED <<_models, _queued_models>>
    /\ queue_at_call' = <<>>
    /\ invoked' = <<>>
    /\ finished' = <<>>
    /\ UNCHANGED <<pc, tasks, wstate, wmodels, results>>
    /\ UNCHANGED seriesvars

DeleteModel ==
    \E name \in ModelNames \cup InvalidNames :
        delete_model(name) /\ UNCHANGED datavars

\* Mutant: any method other than "parallel" runs the queue in series.
run_models_DefaultSeries(method) ==
    /\ pc = "idle"
    /\ last' = Call("run_models", "", "", method)
    /\ queue_at_call' = _queued_models
    /\ invoked' = [i \in 1..Len(_queued_models) |-> 0]
    /\ finished' = <<>>
    /\ ret' = InProgress
    /\ IF method = "parallel"
       THEN /\ pc' = "pool"
            /\ tasks' = _queued_models
            /\ wstate' = [i \in 1..Len(_queued_models) |-> "pending"]
            /\ wmodels' = [i \in 1..Len(_queued_models) |-> NoModels]
            /\ results' = [i \in 1..Len(_queued_models) |-> TrainedModel("", "")]
            /\ UNCHANGED seriesvars
       ELSE /\ pc' = "series"
            /\ idx' = 1
            /\ series_models' = <<>>
            /\ UNCHANGED <<tasks, wstate, wmodels, results>>
    /\ UNCHANGED <<_models, _queued_models>>

\* -------------------------------------------------------- __getattr__
\* _get_attr_(self, key): the column of that name, or AttributeError.
_get_attr_(key) ==
    IF key \in Columns THEN Returned("column", <<>>) ELSE Raised("AttributeError")

\* Mutant: the data columns are looked up before the ran models.
__getattr___ColumnsFirst(key) ==
    IF key \in Columns
    THEN _get_attr_(key)
    ELSE IF key \in DOMAIN _models
    THEN Returned("model", <<_models[key]>>)
    ELSE _get_attr_(key)

\* ModelBase.__getattr__(key), for the keys an attribute access passes.
__getattr__(key) ==
    IF key \in DOMAIN _models
    THEN Returned("model", <<_models[key]>>)
    ELSE _get_attr_(key)

\* obj.<key>: Python finds the attributes the object has by itself and
\* calls __getattr__ for every other key.
getattr(key) ==
    /\ pc = "idle"
    /\ last' = Call("getattr", key, "", "")
    /\ ret' = IF key \in InvalidNames
              THEN Returned("attribute", <<>>)
              ELSE __getattr__(key)
    /\ queue_at_call' = <<>>
    /\ invoked' = <<>>
    /\ finished' = <<>>
    /\ UNCHANGED <<_models, _queued_models, pc, tasks, wstate, wmodels, results>>
    /\ UNCHANGED seriesvars

GetAttr ==
    \E key \in ModelNames \cup InvalidNames \cup Columns \cup {"nothing"} :
        getattr(key) /\ UNCHANGED datavars

\* --------------------------------------------------------- run_models
\* run_models up to the point where the first closure can run: the
\* parallel branch hands list(_queued_models.values()) to pool.map, the
\* series branch enters its for loop, anything else raises.
run_models(method) ==
    /\ pc = "idle"
    /\ last' = Call("run_models", "", "", method)
    /\ queue_at_call' = _queued_models
    /\ invoked' = [i \in 1..Len(_queued_models) |-> 0]
    /\ finished' = <<>>
    /\ IF method = "parallel"
       THEN /\ pc' = "pool"
            /\ tasks' = _queued_models
            /\ wstate' = [i \in 1..Len(_queued_models) |-> "pending"]
            /\ wmodels' = [i \in 1..Len(_queued_models) |-> NoModels]
            /\ results' = [i \in 1..Len(_queued_models) |-> TrainedModel("", "")]
            /\ ret' = InProgress
            /\ UNCHANGED seriesvars
       ELSE IF method = "series"
       THEN /\ pc' = "series"
            /\ idx' = 1
            /\ series_models' = <<>>
            /\ ret' = InProgress
            /\ UNCHANGED <<tasks, wstate, wmodels, results>>
       ELSE /\ ret' = Raised("ValueError")
            /\ UNCHANGED pc
            /\ UNCHANGED <<tasks, wstate, wmodels, results>>
            /\ UNCHANGED seriesvars
    /\ UNCHANGED <<_models, _queued_models>>

RunModels ==
    \E method \in RunMethods : run_models(method) /\ UNCHANGED datavars

\* ------------------------------------------------ _run_models_parallel
Running == {i \in 1..Len(tasks) : wstate[i] = "running"}

\* A pool worker takes a task: it unpickles its own copy of the closure,
\* and with it of the object the closure is bound to.
PoolStart(i) ==
    /\ pc = "pool"
    /\ wstate[i] = "pending"
    /\ Cardinality(Running) < NumCPU
    /\ wstate' = [wstate EXCEPT ![i] = "running"]
    /\ wmodels' = [wmodels EXCEPT ![i] = _models]
    /\ invoked' = [invoked EXCEPT ![i] = @ + 1]
    /\ UNCHANGED <<_models, _queued_models, pc, last, ret, queue_at_call,
                   tasks, results, finished>>
    /\ UNCHANGED seriesvars

\* Mutant: the results are collected in the order the workers finish
\* (imap_unordered instead of map).
PoolFinish_Unordered(i, fits) ==
    /\ pc = "pool"
    /\ wstate[i] = "running"
    /\ IF fits
       THEN /\ wstate' = [wstate EXCEPT ![i] = "done"]
            /\ wmodels' = [wmodels EXCEPT ![i] =
                             _run_unsupervised_model(@, tasks[i].fn, tasks[i].name)]
            /\ results' = [results EXCEPT ![Len(finished) + 1] =
                             TrainedModel(tasks[i].fn, tasks[i].name)]
       ELSE /\ wstate' = [wstate EXCEPT ![i] = "failed"]
            /\ UNCHANGED <<wmodels, results>>
    /\ finished' = Append(finished, i)
    /\ UNCHANGED <<_models, _queued_models, pc, last, ret, queue_at_call,
                   invoked, tasks>>
    /\ UNCHANGED seriesvars

\* Mutant: the workers are threads of the caller and train on the
\* caller's object, whose _models they write.
PoolFinish_Shared(i, fits) ==
    /\ pc = "pool"
    /\ wstate[i] = "running"
    /\ IF fits
       THEN /\ wstate' = [wstate EXCEPT ![i] = "done"]
            /\ _models' = _run_unsupervised_model(_models, tasks[i].fn, tasks[i].name)
            /\ results' = [results EXCEPT ![i] =
                             TrainedModel(tasks[i].fn, tasks[i].name)]
            /\ UNCHANGED wmodels
       ELSE /\ wstate' = [wstate EXCEPT ![i] = "failed"]
            /\ UNCHANGED <<_models, wmodels, results>>
    /\ finished' = Append(finished, i)
    /\ UNCHANGED <<_queued_models, pc, last, ret, queue_at_call, invoked, tasks>>
    /\ UNCHANGED seriesvars

\* _run(model) in the worker: the closure trains on the worker's copy and
\* its result (or its exception) is sent back to the parent.
PoolFinish(i, fits) ==
    /\ pc = "pool"
    /\ wstate[i] = "running"
    /\ IF fits
       THEN /\ wstate' = [wstate EXCEPT ![i] = "done"]
            /\ wmodels' = [wmodels EXCEPT ![i] =
                             _run_unsupervised_model(@, tasks[i].fn, tasks[i].name)]
            /\ results' = [results EXCEPT ![i] =
                             TrainedModel(tasks[i].fn, tasks[i].name)]
       ELSE /\ wstate' = [wstate EXCEPT ![i] = "failed"]
            /\ UNCHANGED <<wmodels, results>>
    /\ finished' = Append(finished, i)
    /\ UNCHANGED <<_models, _queued_models, pc, last, ret, queue_at_call,
                   invoked, tasks>>
    /\ UNCHANGED seriesvars

\* Mutant: the loop registers the results and leaves the queue alone.
RECURSIVE CollectLoop_KeepQueue(_, _, _, _)
CollectLoop_KeepQueue(res, k, m, q) ==
    IF k > Len(res)
    THEN [_models |-> m, _queued_models |-> q]
    ELSE CollectLoop_KeepQueue(res, k + 1,
                               DictSet(m, res[k].model_name, res[k]), q)

\* The loop after the pool: register every result under its model_name
\* and take that name off the queue.
RECURSIVE CollectLoop(_, _, _, _)
CollectLoop(res, k, m, q) ==
    IF k > Len(res)
    THEN [_models |-> m, _queued_models |-> q]
    ELSE CollectLoop(res, k + 1,
                     DictSet(m, res[k].model_name, res[k]),
                     QueueDel(q, res[k].model_name))

\* Mutant: the failed tasks are skipped and the results of the others
\* are registered.
PoolCollect_SkipsFailed ==
    /\ pc = "pool"
    /\ \A i \in 1..Len(tasks) : wstate[i] \in {"done", "failed"}
    /\ LET good == SelectSeq(results, LAMBDA r : r.model_name # "")
           after == CollectLoop(good, 1, _models, _queued_models)
       IN  /\ _models' = after._models
           /\ _queued_models' = after._queued_models
           /\ ret' = IF Len(good) = Len(tasks)
                     THEN Returned("list", results)
                     ELSE Raised("TrainError")
    /\ pc' = "idle"
    /\ tasks' = <<>>
    /\ wstate' = <<>>
    /\ wmodels' = <<>>
    /\ results' = <<>>
    /\ UNCHANGED <<last, queue_at_call, invoked, finished>>
    /\ UNCHANGED seriesvars

\* pool.map returned: every task is done and none failed.
PoolCollect ==
    /\ pc = "pool"
    /\ \A i \in 1..Len(tasks) : wstate[i] = "done"
    /\ LET after == CollectLoop(results, 1, _models, _queued_models)
       IN  /\ _models' = after._models
           /\ _queued_models' = after._queued_models
    /\ ret' = Returned("list", results)
    /\ pc' = "idle"
    /\ tasks' = <<>>
    /\ wstate' = <<>>
    /\ wmodels' = <<>>
    /\ results' = <<>>
    /\ UNCHANGED <<last, queue_at_call, invoked, finished>>
    /\ UNCHANGED seriesvars

\* pool.map re-raises a task's exception; leaving the with block
\* terminates the pool, whatever its workers are doing.
PoolRaise ==
    /\ pc = "pool"
    /\ \E i \in 1..Len(tasks) : wstate[i] = "failed"
    /\ ret' = Raised("TrainError")
    /\ pc' = "idle"
    /\ tasks' = <<>>
    /\ wstate' = <<>>
    /\ wmodels' = <<>>
    /\ results' = <<>>
    /\ queue_at_call' = <<>>
    /\ invoked' = <<>>
    /\ finished' = <<>>
    /\ UNCHANGED <<_models, _queued_models, last>>
    /\ UNCHANGED seriesvars

Pool ==
    \/ \E i \in 1..NumNames :
          i <= Len(tasks) /\ PoolStart(i) /\ UNCHANGED datavars
    \/ \E i \in 1..NumNames, fits \in BOOLEAN :
          i <= Len(tasks) /\ PoolFinish(i, fits) /\ UNCHANGED datavars
    \/ PoolCollect /\ UNCHANGED datavars
    \/ PoolRaise /\ UNCHANGED datavars

\* Mutant: the loop body calls the closure a second time.
SeriesStep_RunsTwice(fits) ==
    /\ pc = "series"
    /\ idx <= Len(_queued_models)
    /\ LET entry == _queued_models[idx]
       IN  IF fits
           THEN /\ _models' = _run_unsupervised_model(_models, entry.fn, entry.name)
                /\ series_models' = Append(series_models,
                                           TrainedModel(entry.fn, entry.name))
                /\ idx' = idx + 1
                /\ invoked' = [invoked EXCEPT ![idx] = @ + 2]
                /\ UNCHANGED <<pc, ret, queue_at_call>>
           ELSE /\ ret' = Raised("TrainError")
                /\ pc' = "idle"
                /\ idx' = 0
                /\ series_models' = <<>>
                /\ queue_at_call' = <<>>
                /\ invoked' = <<>>
                /\ UNCHANGED _models
    /\ UNCHANGED <<_queued_models, last>>
    /\ UNCHANGED poolvars

\* ------------------------------------------------- run_models, series
\* Mutant: the loop walks the queue from its end.
SeriesStep_Reversed(fits) ==
    /\ pc = "series"
    /\ idx <= Len(_queued_models)
    /\ LET pos == Len(_queued_models) + 1 - idx
           entry == _queued_models[pos]
       IN  IF fits
           THEN /\ _models' = _run_unsupervised_model(_models, entry.fn, entry.name)
                /\ series_models' = Append(series_models,
                                           TrainedModel(entry.fn, entry.name))
                /\ idx' = idx + 1
                /\ invoked' = [invoked EXCEPT ![pos] = @ + 1]
                /\ UNCHANGED <<pc, ret, queue_at_call>>
           ELSE /\ ret' = Raised("TrainError")
                /\ pc' = "idle"
                /\ idx' = 0
                /\ series_models' = <<>>
                /\ queue_at_call' = <<>>
                /\ invoked' = <<>>
                /\ UNCHANGED _models
    /\ UNCHANGED <<_queued_models, last>>
    /\ UNCHANGED poolvars

\* One turn of `for model in self._queued_models`: the closure runs in
\* the caller's process, through the wrapper again, with run=True and the
\* model_name it was queued under, which the wrapper found valid then.
\* Nothing here takes the entry off the queue.
SeriesStep(fits) ==
    /\ pc = "series"
    /\ idx <= Len(_queued_models)
    /\ LET entry == _queued_models[idx]
       IN  IF fits
           THEN /\ _models' = _run_unsupervised_model(_models, entry.fn, entry.name)
                /\ series_models' = Append(series_models,
                                           TrainedModel(entry.fn, entry.name))
                /\ idx' = idx + 1
                /\ invoked' = [invoked EXCEPT ![idx] = @ + 1]
                /\ UNCHANGED <<pc, ret, queue_at_call>>
           ELSE /\ ret' = Raised("TrainError")
                /\ pc' = "idle"
                /\ idx' = 0
                /\ series_models' = <<>>
                /\ queue_at_call' = <<>>
                /\ invoked' = <<>>
                /\ UNCHANGED _models
    /\ UNCHANGED <<_queued_models, last>>
    /\ UNCHANGED poolvars

\* The for loop is exhausted: return models.
SeriesReturn ==
    /\ pc = "series"
    /\ idx > Len(_queued_models)
    /\ ret' = Returned("list", series_models)
    /\ pc' = "idle"
    /\ idx' = 0
    /\ series_models' = <<>>
    /\ UNCHANGED <<_models, _queued_models, last, queue_at_call, invoked>>
    /\ UNCHANGED poolvars

Series ==
    \/ \E fits \in BOOLEAN : SeriesStep(fits) /\ UNCHANGED datavars
    \/ SeriesReturn /\ UNCHANGED datavars

Next == ModelMethod \/ DeleteModel \/ GetAttr \/ RunModels \/ Pool \/ Series

Spec == Init /\ [][Next]_vars

\* ------------------------------------------------------- data containers
\* The most objects, dataframes and in-place edits of one dataframe that
\* are looked at.
MaxObjects == 2

MaxFrames == 5

MaxEdits == 1

\* The classes of data container: Analysis, and the two modelling classes
\* built on ModelBase.
Classes == {"Analysis", "Classification", "Unsupervised"}

Targets == {"", "Y"}

ExpNames == {"churn"}

Datasets == {"train", "test"}

\* The model name the registry operations on the objects use.
RegistryNames == {"km"}

\* A dataframe: its columns, which rows of the user's data it holds and
\* how many times it was edited in place.
Frame(cols, rows) == [cols |-> cols, rows |-> rows, edits |-> 0]

\* The columns of the data the user passes in.
UserCols(target) == <<"Age", "info">> \o (IF target = "" THEN <<>> ELSE <<target>>)

\* split_data: the training part and the test part of a dataframe.
split_data(frame) ==
    <<[frame EXCEPT !.rows = IF frame.rows = "all" THEN "train" ELSE frame.rows \o "/train"],
      [frame EXCEPT !.rows = IF frame.rows = "all" THEN "test" ELSE frame.rows \o "/test"]>>

\* Analysis.__init__: the new object refers to the dataframes it is given
\* (0 for None); it has no registry.
Analysis_init(cls, x_train, x_test, target) ==
    [cls |-> cls, x_train |-> x_train, x_test |-> x_test, target |-> target,
     test_split_percentage |-> Absent, exp_name |-> Absent,
     _models |-> 0, _queued_models |-> 0, origin |-> 0]

\* ModelBase.__init__ on the heap of dataframes fr, with d dicts allocated
\* so far: two fresh dicts, and the data split when no test set is given
\* and the class is not Unsupervised.  Gives the object and the heap.
ModelBase_init(cls, fr, d, x_train, target, x_test, test_split_percentage, exp_name) ==
    LET split == x_test = 0 /\ cls # "Unsupervised"
        heap == IF split THEN fr \o split_data(fr[x_train]) ELSE fr
    IN  [obj |-> [cls |-> cls,
                  x_train |-> IF split THEN Len(fr) + 1 ELSE x_train,
                  x_test |-> IF split THEN Len(fr) + 2 ELSE x_test,
                  target |-> target,
                  test_split_percentage |-> test_split_percentage,
                  exp_name |-> exp_name,
                  _models |-> d + 1, _queued_models |-> d + 2, origin |-> 0],
         frames |-> heap]

\* Unsupervised.__init__(x_train, exp_name): no target and no test set.
Unsupervised_init(fr, d, x_train, exp_name) ==
    ModelBase_init("Unsupervised", fr, d, x_train, "", 0, "0.2", exp_name)

\* Whether the class's constructor takes the keyword arguments that
\* ModelBase.__deepcopy__ passes: x_train, target, x_test,
\* test_split_percentage, exp_name.
AcceptsModelBaseArgs(cls) == cls # "Unsupervised"

\* The object a user constructs from their data.
NewObject(cls, has_test, target, exp_name) ==
    LET fr == IF has_test
              THEN <<Frame(UserCols(target), "train"), Frame(UserCols(target), "test")>>
              ELSE <<Frame(UserCols(target), "all")>>
        x_test == IF has_test THEN 2 ELSE 0
    IN  CASE cls = "Analysis" ->
               [obj |-> Analysis_init(cls, 1, x_test, target), frames |-> fr]
          [] cls = "Unsupervised" -> Unsupervised_init(fr, 0, 1, exp_name)
          [] OTHER -> ModelBase_init(cls, fr, 0, 1, target, x_test, "0.2", exp_name)

\* One data container, as the user constructed it; the registry of the
\* first part of the model is not used.
DataInit ==
    /\ RegistryInit
    /\ \E cls \in Classes, has_test \in BOOLEAN, target \in Targets, exp_name \in ExpNames :
          /\ cls = "Unsupervised" => ~has_test /\ target = ""
          /\ cls = "Classification" => target # ""
          /\ LET new == NewObject(cls, has_test, target, exp_name)
             IN  /\ objs = <<new.obj>>
                 /\ frames = new.frames
                 /\ dicts = IF cls = "Analysis" THEN <<>> ELSE <<{}, {}>>
          /\ dlast = DCall("init", 1, "")
          /\ dret = DRet("object", 1, 0)

HasRegistry(o) == objs[o].cls # "Analysis"

\* What the object sees of its data, its queue and its registry.
View(o) ==
    [x_train |-> frames[objs[o].x_train],
     x_test |-> IF objs[o].x_test = 0 THEN Absent ELSE frames[objs[o].x_test],
     _queued_models |-> IF HasRegistry(o) THEN dicts[objs[o]._queued_models] ELSE {},
     _models |-> IF HasRegistry(o) THEN dicts[objs[o]._models] ELSE {}]

\* ModelBase.__deepcopy__ / Analysis.__deepcopy__ behind copy(): the test
\* set and the training set are copied, a new object of the receiver's
\* class is constructed from the copies, and a modelling object's copy is
\* handed the receiver's _models and _queued_models dicts themselves.
copy(o) ==
    LET self == objs[o]
        has_test == self.x_test # 0
        fr1 == IF has_test THEN Append(frames, frames[self.x_test]) ELSE frames
        x_test == IF has_test THEN Len(fr1) ELSE 0
        fr2 == Append(fr1, frames[self.x_train])
        x_train == Len(fr2)
        new == ModelBase_init(self.cls, fr2, Len(dicts), x_train, self.target, x_test,
                              self.test_split_percentage, self.exp_name)
    IN  /\ dlast' = DCall("copy", o, "")
        /\ IF self.cls = "Analysis"
           THEN /\ Len(objs) < MaxObjects /\ Len(fr2) <= MaxFrames
                /\ objs' = Append(objs, [Analysis_init(self.cls, x_train, x_test, self.target)
                                            EXCEPT !.origin = o])
                /\ frames' = fr2
                /\ dret' = DRet("object", Len(objs) + 1, 0)
           ELSE IF ~AcceptsModelBaseArgs(self.cls)
           THEN /\ dret' = DRet("TypeError", 0, 0)
                /\ UNCHANGED <<objs, frames>>
           ELSE /\ Len(objs) < MaxObjects /\ Len(new.frames) <= MaxFrames
                /\ objs' = Append(objs, [new.obj EXCEPT !._models = self._models,
                                                        !._queued_models = self._queued_models,
                                                        !.origin = o])
                /\ frames' = new.frames
                /\ dret' = DRet("object", Len(objs) + 1, 0)
        /\ UNCHANGED dicts
        /\ UNCHANGED regvars

\* A model method of the object called with run=False: add_to_queue puts
\* the name into the object's queue.
QueueModel(o, name) ==
    /\ HasRegistry(o)
    /\ dlast' = DCall("queue", o, name)
    /\ dret' = DRet("None", 0, 0)
    /\ dicts' = [dicts EXCEPT ![objs[o]._queued_models] = @ \cup {name}]
    /\ UNCHANGED <<objs, frames>>
    /\ UNCHANGED regvars

\* A model method of the object called with run=True: the trained model is
\* registered under the name in the object's registry.
RunModel(o, name) ==
    /\ HasRegistry(o)
    /\ dlast' = DCall("run", o, name)
    /\ dret' = DRet("model", 0, 0)
    /\ dicts' = [dicts EXCEPT ![objs[o]._models] = @ \cup {name}]
    /\ UNCHANGED <<objs, frames>>
    /\ UNCHANGED regvars

\* delete_model on the object: from the queue, else from the registry,
\* else an error.
DeleteModelOf(o, name) ==
    LET self == objs[o]
    IN  /\ HasRegistry(o)
        /\ dlast' = DCall("delete_model", o, name)
        /\ IF name \in dicts[self._queued_models]
           THEN /\ dicts' = [dicts EXCEPT ![self._queued_models] = @ \ {name}]
                /\ dret' = DRet("None", 0, 0)
           ELSE IF name \in dicts[self._models]
           THEN /\ dicts' = [dicts EXCEPT ![self._models] = @ \ {name}]
                /\ dret' = DRet("None", 0, 0)
           ELSE /\ dret' = DRet("ValueError", 0, 0)
                /\ UNCHANGED dicts
        /\ UNCHANGED <<objs, frames>>
        /\ UNCHANGED regvars

\* The user edits the object's training data in place, e.g. assigns to a
\* column of obj.x_train.
EditData(o) ==
    /\ frames[objs[o].x_train].edits < MaxEdits
    /\ dlast' = DCall("edit", o, "")
    /\ dret' = DRet("None", 0, 0)
    /\ frames' = [frames EXCEPT ![objs[o].x_train].edits = @ + 1]
    /\ UNCHANGED <<objs, dicts>>
    /\ UNCHANGED regvars

\* The columns of the dataframe that replaces the training data.  A
\* modelling object is given it through the train_data setter, which
\* first assigns the target column, val[self.target] = self.y_train,
\* whatever the target is; an Analysis object is assigned a dataframe
\* that has its target.
ReplacedCols(self) ==
    IF self.cls = "Analysis" /\ self.target = ""
    THEN <<"id">>
    ELSE <<"id", self.target>>

\* The user assigns a new dataframe to the object's training data.
ReplaceData(o) ==
    /\ Len(frames) < MaxFrames
    /\ dlast' = DCall("replace", o, "")
    /\ dret' = DRet("None", 0, 0)
    /\ frames' = Append(frames, Frame(ReplacedCols(objs[o]), "all"))
    /\ objs' = [objs EXCEPT ![o].x_train = Len(frames) + 1]
    /\ UNCHANGED dicts
    /\ UNCHANGED regvars

\* re.sub("\W+", "_", name.lower()) on the column names in use.
Standardize(name) ==
    CASE name = "Age" -> "age"
      [] name = "Y" -> "y"
      [] OTHER -> name

Rename(cols) == [i \in 1..Len(cols) |-> Standardize(cols[i])]

\* standardize_column_names: renames the columns of the training data and
\* of the test set if there is one, in place, standardizes the target,
\* and returns the receiver.
standardize_column_names(o) ==
    LET self == objs[o]
        fr1 == [frames EXCEPT ![self.x_train].cols = Rename(@)]
    IN  /\ dlast' = DCall("standardize_column_names", o, "")
        /\ objs' = [objs EXCEPT ![o].target = Standardize(@)]
        /\ frames' = IF self.x_test # 0
                     THEN [fr1 EXCEPT ![self.x_test].cols = Rename(@)]
                     ELSE fr1
        /\ dret' = DRet("object", o, 0)
        /\ UNCHANGED dicts
        /\ UNCHANGED regvars

\* The columns json_normalize makes of the JSON column of the user's data.
JsonKeys == <<"k">>

Has(cols, col) == \E i \in 1..Len(cols) : cols[i] = col

Drop(cols, col) == SelectSeq(cols, LAMBDA c : c # col)

\* expand_json_column: for the training data and then for the test set if
\* there is one: the column is dropped from the dataframe in place and the
\* object is given a new dataframe with the JSON keys as extra columns; a
\* dataframe without the column raises KeyError.  Returns the receiver.
expand_json_column(o, col) ==
    LET self == objs[o]
        train == frames[self.x_train]
        fr1 == Append([frames EXCEPT ![self.x_train].cols = Drop(@, col)],
                      [train EXCEPT !.cols = Drop(@, col) \o JsonKeys])
        obj1 == [self EXCEPT !.x_train = Len(fr1)]
    IN  /\ dlast' = DCall("expand_json_column", o, col)
        /\ UNCHANGED dicts
        /\ UNCHANGED regvars
        /\ IF ~Has(train.cols, col)
           THEN /\ dret' = DRet("KeyError", 0, 0)
                /\ UNCHANGED <<objs, frames>>
           ELSE IF self.x_test = 0
           THEN /\ Len(fr1) <= MaxFrames
                /\ frames' = fr1
                /\ objs' = [objs EXCEPT ![o] = obj1]
                /\ dret' = DRet("object", o, 0)
           ELSE IF ~Has(frames[self.x_test].cols, col)
           THEN /\ Len(fr1) <= MaxFrames
                /\ frames' = fr1
                /\ objs' = [objs EXCEPT ![o] = obj1]
                /\ dret' = DRet("KeyError", 0, 0)
           ELSE /\ Len(fr1) + 1 <= MaxFrames
                /\ frames' = Append([fr1 EXCEPT ![self.x_test].cols = Drop(@, col)],
                                    [frames[self.x_test] EXCEPT !.cols = Drop(@, col) \o JsonKeys])
                /\ objs' = [objs EXCEPT ![o] = [obj1 EXCEPT !.x_test = Len(fr1) + 1]]
                /\ dret' = DRet("object", o, 0)

\* describe, column_info and describe_column: the summary of x_train when
\* dataset is 'train', else of x_test; the summary of None is a TypeError
\* of the summarizer.
describe(o, fn, dataset) ==
    LET self == objs[o]
    IN  /\ dlast' = DCall(fn, o, dataset)
        /\ dret' = IF dataset = "train"
                   THEN DRet("summary", 0, self.x_train)
                   ELSE IF self.x_test = 0
                   THEN DRet("TypeError", 0, 0)
                   ELSE DRet("summary", 0, self.x_test)
        /\ UNCHANGED <<objs, frames, dicts>>
        /\ UNCHANGED regvars

DescribeMethods == {"describe", "column_info", "describe_column"}

Objects == 1..MaxObjects

Copy == \E o \in Objects : o <= Len(objs) /\ copy(o)

Registry ==
    \E o \in Objects, name \in RegistryNames :
        /\ o <= Len(objs)
        /\ QueueModel(o, name) \/ RunModel(o, name) \/ DeleteModelOf(o, name)

Data == \E o \in Objects : o <= Len(objs) /\ (EditData(o) \/ ReplaceData(o))

ColumnMethods ==
    \E o \in Objects :
        /\ o <= Len(objs)
        /\ \/ standardize_column_names(o)
           \/ \E col \in {"info", "zip"} : expand_json_column(o, col)

Describe ==
    \E o \in Objects, fn \in DescribeMethods, dataset \in Datasets :
        o <= Len(objs) /\ describe(o, fn, dataset)

DataNext == Copy \/ Registry \/ Data \/ ColumnMethods \/ Describe

SpecData == DataInit /\ [][DataNext]_vars

\* ------------------------------------------------------------- accessors
\* list.remove(x): the list without its first element equal to x.
Remove(cols, x) ==
    LET i == CHOOSE k \in 1..Len(cols) :
                 cols[k] = x /\ \A j \in 1..(k - 1) : cols[j] # x
    IN  SubSeq(cols, 1, i - 1) \o SubSeq(cols, i + 1, Len(cols))

\* The features property: a new list of x_train's columns, from which the
\* target is removed when it is not empty; removing a target that is not a
\* column raises ValueError.
FeaturesOf(self) ==
    LET cols == frames[self.x_train].cols
    IN  IF self.target = ""
        THEN DRetCols("list", cols)
        ELSE IF ~Has(cols, self.target)
        THEN DRet("ValueError", 0, 0)
        ELSE DRetCols("list", Remove(cols, self.target))

\* frame[columns]: a new dataframe of the listed columns, KeyError when
\* the dataframe lacks one of them.
Select(frame, columns) ==
    IF \A i \in 1..Len(columns) : Has(frame.cols, columns[i])
    THEN DRetCols("frame", columns)
    ELSE DRet("KeyError", 0, 0)

\* frame[self.features], the error of features passed on.
SelectFeatures(self, frame) ==
    IF FeaturesOf(self).kind = "list"
    THEN Select(frame, FeaturesOf(self).cols)
    ELSE FeaturesOf(self)

\* Mutant: features removes the target from x_train's columns themselves.
features_RemovesInPlace(o) ==
    /\ dlast' = DCall("features", o, "")
    /\ dret' = FeaturesOf(objs[o])
    /\ frames' = [frames EXCEPT ![objs[o].x_train].cols =
                      IF FeaturesOf(objs[o]).kind = "list" THEN FeaturesOf(objs[o]).cols ELSE @]
    /\ UNCHANGED <<objs, dicts>>
    /\ UNCHANGED regvars

\* Reading obj.features.
features(o) ==
    /\ dlast' = DCall("features", o, "")
    /\ dret' = FeaturesOf(objs[o])
    /\ UNCHANGED <<objs, frames, dicts>>
    /\ UNCHANGED regvars

\* Reading obj.train_data of a modelling object: x_train[features].
train_data(o) ==
    /\ HasRegistry(o)
    /\ dlast' = DCall("train_data", o, "")
    /\ dret' = SelectFeatures(objs[o], frames[objs[o].x_train])
    /\ UNCHANGED <<objs, frames, dicts>>
    /\ UNCHANGED regvars

\* Reading obj.test_data of a modelling object: x_test[features], or None
\* without a test set.
test_data(o) ==
    /\ HasRegistry(o)
    /\ dlast' = DCall("test_data", o, "")
    /\ dret' = IF objs[o].x_test # 0
               THEN SelectFeatures(objs[o], frames[objs[o].x_test])
               ELSE DRet("None", 0, 0)
    /\ UNCHANGED <<objs, frames, dicts>>
    /\ UNCHANGED regvars

AccessorNames == {"features", "train_data", "test_data"}

Accessors ==
    \E o \in Objects :
        o <= Len(objs) /\ (features(o) \/ train_data(o) \/ test_data(o))

\* One data container: its data is edited, replaced and renamed, and its
\* accessors are read.
AccessorsNext == Data \/ ColumnMethods \/ Accessors

SpecAccessors == DataInit /\ [][AccessorsNext]_vars

\* ------------------------------------------------------------ properties
\* run_models has returned its list through the given branch.
RunReturned(method) ==
    /\ pc = "idle"
    /\ last.op = "run_models"
    /\ last.method = method
    /\ ret.kind = "list"

\* The result of running a queue entry's closure.
ResultOf(entry) == TrainedModel(entry.fn, entry.name)

\* C1: after run_models(method='parallel') returns normally, every name
\* that was queued when the call began is in _models, mapped to the result
\* of that name's closure, and the queue is empty.
C1_ParallelMovesQueueToModels ==
    RunReturned("parallel") =>
        /\ \A i \in 1..Len(queue_at_call) :
              /\ queue_at_call[i].name \in DOMAIN _models
              /\ _models[queue_at_call[i].name] = ResultOf(queue_at_call[i])
        /\ _queued_models = <<>>

\* A parallel run of two queued models has returned.
C1_Witness == RunReturned("parallel") /\ Len(queue_at_call) >= 2

\* C2: after run_models(method='series') returns normally the queue is
\* empty.
C2_SeriesDrainsQueue == RunReturned("series") => _queued_models = <<>>

\* C3: one run_models call, with either method, invokes every closure that
\* was queued when it began exactly once and returns exactly one result per
\* queued model; with an empty queue nothing runs and the list is empty.
C3_RunsEachQueuedModelOnce ==
    (RunReturned("parallel") \/ RunReturned("series")) =>
        /\ Len(invoked) = Len(queue_at_call)
        /\ \A i \in 1..Len(queue_at_call) : invoked[i] = 1
        /\ Len(ret.val) = Len(queue_at_call)
        /\ \A i \in 1..Len(queue_at_call) :
              Cardinality({k \in 1..Len(ret.val) :
                              ret.val[k] = ResultOf(queue_at_call[i])}) = 1
        /\ (queue_at_call = <<>> => ret.val = <<>>)

\* A series run of two queued models has returned.
C3_Witness == RunReturned("series") /\ Len(queue_at_call) >= 2

\* C4: the list run_models(method='parallel') returns is in queue insertion
\* order, whatever order the workers started and finished in.
C4_ParallelResultsInQueueOrder ==
    RunReturned("parallel") =>
        /\ Len(ret.val) = Len(queue_at_call)
        /\ \A i \in 1..Len(queue_at_call) : ret.val[i] = ResultOf(queue_at_call[i])

\* A parallel run has returned whose second task finished before its first.
C4_Witness ==
    /\ RunReturned("parallel")
    /\ Len(finished) >= 2
    /\ finished[1] > finished[2]

\* C5: while the pool workers run, no step changes the caller's _models or
\* _queued_models; they change only in the step that leaves the pool, in
\* the calling process, after every worker has finished.
C5_NoSharedMutableState ==
    [][(pc = "pool" /\ (_models' # _models \/ _queued_models' # _queued_models)) =>
          /\ \A i \in 1..Len(tasks) : wstate[i] = "done"
          /\ pc' = "idle"]_vars

\* Two workers have trained at once, each on its own copy, and the
\* caller's registry still is what it was.
C5_Witness ==
    /\ pc = "pool"
    /\ \E i, j \in 1..Len(tasks) :
          /\ i # j
          /\ wstate[i] = "done"
          /\ wstate[j] = "done"
          /\ finished = <<j, i>>
          /\ wmodels[i] # _models
          /\ wmodels[j] # wmodels[i]

\* C6: a model method called with run=False and a valid model name trains
\* nothing: afterwards the queue holds exactly one entry under model_name,
\* the new closure, every other entry is as before, _models is unchanged
\* and the call returned None.  (A step of such a call starts idle and
\* records in last the effective model_name, passed or taken from the
\* signature, and run=False.)
C6_RunFalseOnlyQueues ==
    [][(pc = "idle" /\ last'.op = "model" /\ last'.run = "False"
            /\ _validate_model_name(last'.name)) =>
       \A fn \in UnsupervisedMethods :
          Wrapper(fn, last'.name, "False", TRUE) =>
              LET name == last'.name
              IN  /\ Cardinality({i \in 1..Len(_queued_models') :
                                     _queued_models'[i].name = name}) = 1
                  /\ \E i \in 1..Len(_queued_models') :
                        _queued_models'[i] = [name |-> name, fn |-> fn]
                  /\ QueueDel(_queued_models', name) = QueueDel(_queued_models, name)
                  /\ Len(_queued_models') <= Len(_queued_models) + 1
                  /\ _models' = _models
                  /\ ret' = Returned("None", <<>>)]_vars

\* A run=False call has queued a model while a ran model is registered.
C6_Witness ==
    /\ last.op = "model"
    /\ last.run = "False"
    /\ ret.kind = "None"
    /\ last.name \in Keys(_queued_models)
    /\ Len(_queued_models) >= 2
    /\ _models # NoModels

C8_DeleteRemovesEverywhere ==
    (pc = "idle" /\ last.op = "delete_model" /\ ret.kind = "None") =>
        /\ last.name \notin Keys(_queued_models)
        /\ last.name \notin DOMAIN _models

\* C9: delete_model(name) with a name in neither registry raises ValueError
\* and leaves both registries unchanged.
C9_DeleteUnknownRaises ==
    [][\A name \in ModelNames \cup InvalidNames :
          (delete_model(name) /\ name \notin Keys(_queued_models)
                              /\ name \notin DOMAIN _models) =>
              /\ ret' = Raised("ValueError")
              /\ _models' = _models
              /\ _queued_models' = _queued_models]_vars

\* delete_model has raised for a name while other models are queued and ran.
C9_Witness ==
    /\ last.op = "delete_model"
    /\ ret = Raised("ValueError")
    /\ _queued_models # <<>>
    /\ _models # NoModels

\* C10: run_models with a method other than 'parallel' or 'series' raises
\* ValueError, runs no queued model and leaves both registries unchanged.
C10_InvalidMethodRaises ==
    [][\A method \in RunMethods \ {"parallel", "series"} :
          run_models(method) =>
              /\ ret' = Raised("ValueError")
              /\ pc' = "idle"
              /\ \A i \in 1..Len(invoked') : invoked'[i] = 0
              /\ _models' = _models
              /\ _queued_models' = _queued_models]_vars

\* run_models has raised for an unknown method with models in the queue.
C10_Witness ==
    /\ last.op = "run_models"
    /\ last.method = "threads"
    /\ ret = Raised("ValueError")
    /\ _queued_models # <<>>

\* C11 (as claimed): a model method called with an invalid model name
\* raises ValueError.
C11_InvalidNameRaisesValueError ==
    (pc = "idle" /\ last.op = "model" /\ ~_validate_model_name(last.name)) =>
        ret = Raised("ValueError")

\* C11 (amended): a model method called with an invalid model name raises
\* AttributeError, before anything is trained or added to the queue: both
\* registries are as they were.
C11_InvalidNameRaisesAttributeError ==
    [][(pc = "idle" /\ last'.op = "model" /\ ~_validate_model_name(last'.name)) =>
          /\ ret' = Raised("AttributeError")
          /\ _models' = _models
          /\ _queued_models' = _queued_models]_vars

\* A call with an invalid name was rejected while models are queued and ran.
C11_Witness ==
    /\ last.op = "model"
    /\ ~_validate_model_name(last.name)
    /\ ret = Raised("AttributeError")
    /\ _queued_models # <<>>
    /\ _models # NoModels

\* The two objects are a receiver of copy() and the copy it returned.
CopyPair(a, b) == objs[b].origin = a \/ objs[a].origin = b

\* C12: copy() returns a deep copy: no operation on the copy (queueing,
\* running or deleting a model, editing or replacing its data) changes the
\* receiver's data, queue or registry of ran models, and no operation on
\* the receiver changes the copy's.
C12_CopyIsIndependent ==
    [][\A a \in Objects, b \in Objects :
          (/\ a <= Len(objs) /\ b <= Len(objs)
           /\ dlast'.obj = a
           /\ CopyPair(a, b))
          => View(b)' = View(b)]_vars

\* C13: copy() succeeds on every data container, an Unsupervised object
\* included, and returns an object of the receiver's class whose x_train,
\* x_test, target, test_split_percentage and exp_name equal the
\* receiver's: the data is not split again.
C13_CopySucceedsWithEqualFields ==
    dlast.op = "copy" =>
        /\ dret.kind = "object"
        /\ LET self == objs[dlast.obj]
               new_inst == objs[dret.obj]
           IN  /\ new_inst.cls = self.cls
               /\ frames[new_inst.x_train] = frames[self.x_train]
               /\ (self.x_test = 0) = (new_inst.x_test = 0)
               /\ self.x_test # 0 => frames[new_inst.x_test] = frames[self.x_test]
               /\ new_inst.target = self.target
               /\ new_inst.test_split_percentage = self.test_split_percentage
               /\ new_inst.exp_name = self.exp_name

\* C14: standardize_column_names and expand_json_column each return a deep
\* copy of the data object: another object than the receiver, with a
\* dataframe of its own.
C14_ColumnMethodsReturnCopy ==
    (/\ dlast.op \in {"standardize_column_names", "expand_json_column"}
     /\ dret.kind = "object")
    => /\ dret.obj # dlast.obj
       /\ objs[dret.obj].x_train # objs[dlast.obj].x_train

\* C15: describe, column_info and describe_column summarize the training
\* data whenever the object has no test set, whatever the dataset argument
\* is; with a test set, 'train' selects x_train and 'test' selects x_test.
C15_DescribesFullDatasetWithoutTestSet ==
    dlast.op \in DescribeMethods =>
        LET self == objs[dlast.obj]
        IN  /\ self.x_test = 0 => dret = DRet("summary", 0, self.x_train)
            /\ (self.x_test # 0 /\ dlast.arg = "train") =>
                   dret = DRet("summary", 0, self.x_train)
            /\ (self.x_test # 0 /\ dlast.arg = "test") =>
                   dret = DRet("summary", 0, self.x_test)

\* C16: run_models(method='series') runs the queued closures one after the
\* other in queue insertion order: when the closure at a position runs,
\* every closure before it has run and returned and none after it has
\* started, and the returned list is in that order.
C16_SeriesRunsInQueueOrder ==
    /\ pc = "series" =>
          /\ Len(series_models) = idx - 1
          /\ \A i \in 1..Len(_queued_models) :
                /\ invoked[i] = (IF i < idx THEN 1 ELSE 0)
                /\ i < idx => series_models[i] = ResultOf(_queued_models[i])
    /\ RunReturned("series") =>
          /\ Len(ret.val) = Len(queue_at_call)
          /\ \A i \in 1..Len(queue_at_call) : ret.val[i] = ResultOf(queue_at_call[i])

\* A series run over two different closures has returned.
C16_Witness ==
    /\ RunReturned("series")
    /\ Len(queue_at_call) >= 2
    /\ ret.val[1] # ret.val[2]
    /\ ret.val[1].fn # ret.val[2].fn

\* C17: a model method with XGBoost in its name called with run=False is
\* never queued: the call prints its notice, returns None and leaves the
\* queue and the ran models unchanged.
C17_XGBoostNeverQueued ==
    [][(pc = "idle" /\ last'.op = "model" /\ last'.run = "False"
            /\ _validate_model_name(last'.name)) =>
       (Wrapper("XGBoostClassification", last'.name, "False", TRUE) =>
           /\ ret' = Returned("notice", <<>>)
           /\ _queued_models' = _queued_models
           /\ _models' = _models)]_vars

\* The XGBoost notice was printed while models are queued and ran.
C17_Witness ==
    /\ last.op = "model"
    /\ last.run = "False"
    /\ ret = Returned("notice", <<>>)
    /\ _queued_models # <<>>
    /\ _models # NoModels

\* C18: in every reachable state no model name is in _queued_models and in
\* _models at once.
C18_QueueAndModelsDisjoint == Keys(_queued_models) \cap DOMAIN _models = {}

\* C19: if a queued closure raises during run_models(method='parallel'),
\* the call cannot return normally: it raises, and neither registry is
\* changed, not even for the models whose training succeeded.
C19_ParallelFailureChangesNothing ==
    [][(pc = "pool" /\ \E i \in 1..Len(tasks) : wstate[i] = "failed") =>
          /\ pc' = "idle" => ret' = Raised("TrainError")
          /\ _models' = _models
          /\ _queued_models' = _queued_models]_vars

\* A parallel run over two queued models has raised: the queue is as it
\* was and a queued model is still not registered.
C19_Witness ==
    /\ pc = "idle"
    /\ last.op = "run_models"
    /\ last.method = "parallel"
    /\ ret = Raised("TrainError")
    /\ Len(_queued_models) >= 2
    /\ \E i \in 1..Len(_queued_models) : _queued_models[i].name \notin DOMAIN _models

\* C20: obj.<name> returns the ran model for every name in _models, also
\* when a data column has that name; a name that is not in _models (and
\* is no attribute of the object) falls through to column access.
C20_RanModelIsAttribute ==
    (pc = "idle" /\ last.op = "getattr") =>
        /\ last.name \in DOMAIN _models =>
              ret = Returned("model", <<_models[last.name]>>)
        /\ (last.name \notin DOMAIN _models /\ last.name \notin InvalidNames) =>
              ret = _get_attr_(last.name)

\* obj.<name> was read for a name that is a ran model and a data column.
C20_Witness ==
    /\ pc = "idle"
    /\ last.op = "getattr"
    /\ last.name \in DOMAIN _models
    /\ last.name \in Columns
    /\ ret.kind = "model"

\* x_train's columns in their order with the target left out, all of them
\* when the target is empty.
ColumnsWithoutTarget(self) ==
    IF self.target = ""
    THEN frames[self.x_train].cols
    ELSE SelectSeq(frames[self.x_train].cols, LAMBDA c : c # self.target)

====
